---- MODULE Spec2Model ----
(***************************************************************************)
(* Model of Platformer.py: the PlayerSprite animation state machine and    *)
(* the GameWindow callbacks (setup, on_key_press, on_key_release,          *)
(* on_update).                                                             *)
(*                                                                         *)
(* Lengths are fixed-point numbers in units of 1/Scale pixel, so that      *)
(* DEAD_ZONE = 0.1 and the half-pixel spawn point are exact.  The physics  *)
(* library is external: one step moves the player to a sampled position    *)
(* and reports a sampled ground contact.                                   *)
(***************************************************************************)
EXTENDS Integers, Sequences, FiniteSets, TLC

VARIABLES
    level,           \* GameWindow.level
    map_width,       \* my_map.map_size.width of the map loaded by setup
    end_of_map,      \* GameWindow.end_of_map
    player_sprite,   \* GameWindow.player_sprite (a PlayerSprite)
    player_list,     \* GameWindow.player_list (ids of the sprites in it)
    wall_list,       \* GameWindow.wall_list
    item_list,       \* GameWindow.item_list
    gem_list,        \* GameWindow.gem_list
    physics_engine,  \* GameWindow.physics_engine, as far as the player body goes
    left_pressed,    \* GameWindow.left_pressed
    right_pressed,   \* GameWindow.right_pressed
    held,            \* keys physically held down (the keyboard, not the program)
    view_left,       \* GameWindow.view_left
    view_bottom,     \* GameWindow.view_bottom
    sounds,          \* number of arcade.play_sound calls since the last setup
    removed,         \* per collectible of the level, how often it was removed
    tick,            \* the steps of on_update that have run in the current call
    viewport,        \* the viewport of the window: <<left, right, bottom, top>>
    error            \* the exception that left a callback, "none" while running

vars == <<level, map_width, end_of_map, player_sprite, player_list, wall_list,
          item_list, gem_list, physics_engine, left_pressed, right_pressed,
          held, view_left, view_bottom, sounds, removed, tick, viewport,
          error>>

----------------------------------------------------------------------------
(* Bounds of the model *)

MaxLevel == 2
NumGems == 2
MaxHeld == 2
MaxImpulses == 2

----------------------------------------------------------------------------
(* Program constants *)

Scale == 10

SPRITE_IMAGE_SIZE == 128
\* SPRITE_SCALE = 0.5 is applied as a division by 2
SPRITE_SIZE == (SPRITE_IMAGE_SIZE \div 2) + 1
SCREEN_GRID_WIDTH == 30
SCREEN_WIDTH == 1920 * Scale
SCREEN_HEIGHT == 1080 * Scale
PLAYER_FRICTION == 1
PLAYER_MOVE_FORCE_ON_GROUND == 8000
PLAYER_MOVE_FORCE_IN_AIR == 900
PLAYER_JUMP_IMPULSE == 1400
LEFT_VIEWPORT_MARGIN == 900 * Scale
RIGHT_VIEWPORT_MARGIN == 900 * Scale
BOTTOM_VIEWPORT_MARGIN == 50 * Scale
TOP_VIEWPORT_MARGIN == 100 * Scale
DEAD_ZONE == Scale \div 10
RIGHT_FACING == 0
LEFT_FACING == 1
DISTANCE_TO_CHANGE_TEXTURE == 10 * Scale

\* the map's fixed margin in end_of_map
END_OF_MAP_MARGIN == 800 * Scale

\* grid_x, grid_y of setup
grid_x == 2
grid_y == 2
SpawnX == SPRITE_SIZE * grid_x * Scale + (SPRITE_SIZE * Scale) \div 2
SpawnY == SPRITE_SIZE * grid_y * Scale + (SPRITE_SIZE * Scale) \div 2

\* half extent of the scaled hit box of a sprite built from a tile-sized image
HalfExtent == (SPRITE_IMAGE_SIZE * Scale) \div 4

Abs(n) == IF n < 0 THEN -n ELSE n

\* a rounding that was left out
int_left_out(v) == v

\* a rounding that takes the floor
int_floor(v) == (v \div Scale) * Scale

\* Python's int() on a float: truncation toward zero
int(v) == IF v >= 0 THEN (v \div Scale) * Scale ELSE -(((-v) \div Scale) * Scale)

----------------------------------------------------------------------------
(* Keys *)

LeftKeys == {"LEFT", "A"}
RightKeys == {"RIGHT", "D"}
JumpKeys == {"UP", "SPACE", "W"}
Keys == LeftKeys \cup RightKeys \cup JumpKeys \cup {"S"}

----------------------------------------------------------------------------
(* The maps: external resources, sampled *)

MapWidths == {1, 2}

EndOfMap(w) == w * SCREEN_GRID_WIDTH * Scale + END_OF_MAP_MARGIN

MapWalls(lvl) == {<<lvl, "Platforms", 1>>}
MapItems(lvl) == {<<lvl, "Dynamic Items", 1>>}
MapGems(lvl) ==
    {[id |-> <<lvl, "Valuables", i>>,
      center_x |-> SpawnX + 700 * i,
      center_y |-> SpawnY] : i \in 1..NumGems}

GemIds(lvl) == {gem.id : gem \in MapGems(lvl)}

----------------------------------------------------------------------------
(* PlayerSprite *)

Texture(kind, frame, facing) == <<kind, frame, facing>>

\* a constructor that defaults to face-left
PlayerSprite_face_left(id) ==
    [id |-> id,
     center_x |-> 0,
     center_y |-> 0,
     texture |-> Texture("idle", 0, LEFT_FACING),
     character_face_direction |-> LEFT_FACING,
     current_texture |-> 0,
     x_odometer |-> 0]

\* PlayerSprite.__init__
PlayerSprite(id) ==
    [id |-> id,
     center_x |-> 0,
     center_y |-> 0,
     texture |-> Texture("idle", 0, RIGHT_FACING),
     character_face_direction |-> RIGHT_FACING,
     current_texture |-> 0,
     x_odometer |-> 0]

\* a facing decision that compares dx with 0 instead of the dead zone
face_after_no_dead_zone(self, dx) ==
    IF dx < 0 /\ self.character_face_direction = RIGHT_FACING
    THEN LEFT_FACING
    ELSE IF dx > 0 /\ self.character_face_direction = LEFT_FACING
    THEN RIGHT_FACING
    ELSE self.character_face_direction

\* the facing decision at the head of pymunk_moved
face_after(self, dx) ==
    IF dx < -DEAD_ZONE /\ self.character_face_direction = RIGHT_FACING
    THEN LEFT_FACING
    ELSE IF dx > DEAD_ZONE /\ self.character_face_direction = LEFT_FACING
    THEN RIGHT_FACING
    ELSE self.character_face_direction

\* an odometer that adds the unsigned displacement
odometer_after_unsigned(self, dx) == self.x_odometer + Abs(dx)

\* the odometer update of pymunk_moved
odometer_after(self, dx) == self.x_odometer + dx

\* a frame advance that wraps one frame too late
next_texture_late_wrap(cur) == IF cur + 1 > 8 THEN 0 ELSE cur + 1

\* the frame index after an advance of the walking animation
next_texture(cur) == IF cur + 1 > 7 THEN 0 ELSE cur + 1

\* a branch selection that does not ask for ground contact
animation_branch_no_ground_test(odo, dx, dy, is_on_ground) ==
    IF dy > DEAD_ZONE THEN "jump"
    ELSE IF dy < -DEAD_ZONE THEN "fall"
    ELSE IF Abs(dx) <= DEAD_ZONE THEN "idle"
    ELSE IF Abs(odo) > DISTANCE_TO_CHANGE_TEXTURE THEN "advance"
    ELSE "hold"

\* which branch pymunk_moved takes
animation_branch(odo, dx, dy, is_on_ground) ==
    IF (~is_on_ground) /\ dy > DEAD_ZONE THEN "jump"
    ELSE IF (~is_on_ground) /\ dy < -DEAD_ZONE THEN "fall"
    ELSE IF Abs(dx) <= DEAD_ZONE THEN "idle"
    ELSE IF Abs(odo) > DISTANCE_TO_CHANGE_TEXTURE THEN "advance"
    ELSE "hold"

\* PlayerSprite.pymunk_moved
pymunk_moved(self, dx, dy, is_on_ground) ==
    LET face == face_after(self, dx)
        odo == odometer_after(self, dx)
        branch == animation_branch(odo, dx, dy, is_on_ground)
        faced == [self EXCEPT !.character_face_direction = face,
                              !.x_odometer = odo]
    IN  CASE branch = "jump" ->
               [faced EXCEPT !.texture = Texture("jump", 0, face)]
          [] branch = "fall" ->
               [faced EXCEPT !.texture = Texture("fall", 0, face)]
          [] branch = "idle" ->
               [faced EXCEPT !.texture = Texture("idle", 0, face)]
          [] branch = "advance" ->
               [faced EXCEPT !.x_odometer = 0,
                             !.current_texture = next_texture(self.current_texture),
                             !.texture = Texture("walk", next_texture(self.current_texture), face)]
          [] OTHER -> faced

\* arcade.Sprite's left/right/top/bottom
SpriteLeft(s) == s.center_x - HalfExtent
SpriteRight(s) == s.center_x + HalfExtent
SpriteTop(s) == s.center_y + HalfExtent
SpriteBottom(s) == s.center_y - HalfExtent

----------------------------------------------------------------------------
(* GameWindow.setup *)

\* the PlayerSprite that setup creates and places
SpawnedPlayer(lvl) ==
    [PlayerSprite(lvl) EXCEPT !.center_x = SpawnX, !.center_y = SpawnY]

\* the PymunkPhysicsEngine that setup creates; no contact before its first step
NewPhysicsEngine(lvl) ==
    [id |-> lvl,
     player |-> lvl,
     friction |-> PLAYER_FRICTION,
     forces |-> << >>,
     impulses |-> << >>,
     on_ground |-> FALSE]

\* a setup that appends the new player to the old player list
setup_old_player_list(lvl, w) ==
    /\ player_list' = player_list \cup {SpawnedPlayer(lvl).id}
    /\ map_width' = w
    /\ end_of_map' = EndOfMap(w)
    /\ wall_list' = MapWalls(lvl)
    /\ item_list' = MapItems(lvl)
    /\ gem_list' = MapGems(lvl)
    /\ player_sprite' = SpawnedPlayer(lvl)
    /\ physics_engine' = NewPhysicsEngine(lvl)
    /\ sounds' = 0
    /\ removed' = [g \in GemIds(lvl) |-> 0]

setup(lvl, w) ==
    /\ player_list' = {SpawnedPlayer(lvl).id}
    /\ map_width' = w
    /\ end_of_map' = EndOfMap(w)
    /\ wall_list' = MapWalls(lvl)
    /\ item_list' = MapItems(lvl)
    /\ gem_list' = MapGems(lvl)
    /\ player_sprite' = SpawnedPlayer(lvl)
    /\ physics_engine' = NewPhysicsEngine(lvl)
    /\ sounds' = 0
    /\ removed' = [g \in GemIds(lvl) |-> 0]

\* GameWindow.__init__ followed by main's setup(window.level)
Init ==
    /\ level = 1
    /\ map_width \in MapWidths
    /\ end_of_map = EndOfMap(map_width)
    /\ player_list = {SpawnedPlayer(1).id}
    /\ wall_list = MapWalls(1)
    /\ item_list = MapItems(1)
    /\ gem_list = MapGems(1)
    /\ player_sprite = SpawnedPlayer(1)
    /\ physics_engine = NewPhysicsEngine(1)
    /\ left_pressed = FALSE
    /\ right_pressed = FALSE
    /\ held = {}
    /\ view_left = 0
    /\ view_bottom = 0
    /\ sounds = 0
    /\ removed = [g \in GemIds(1) |-> 0]
    /\ tick = << >>
    /\ viewport = <<0, SCREEN_WIDTH, 0, SCREEN_HEIGHT>>
    /\ error = "none"

----------------------------------------------------------------------------
(* The order of the steps inside on_update *)

\* the order with the physics step moved up behind the input translator
on_update_order_step_first == <<"input", "physics", "level", "camera", "collect">>

\* the order with the level-completion check moved behind the pickup test
on_update_order_check_late == <<"input", "camera", "collect", "level", "physics">>

on_update_order == <<"input", "level", "camera", "collect", "physics">>

\* a main loop that catches the exception and goes on
Running_exception_swallowed == TRUE

\* an exception that leaves a callback ends arcade.run() and the program
Running == error = "none"

TickDone == IF tick = << >> THEN TRUE ELSE tick[Len(tick)] = "animation"

\* the step of on_update that runs next
At(step) ==
    IF TickDone THEN step = on_update_order[1]
    ELSE /\ Len(tick) < Len(on_update_order)
         /\ step = on_update_order[Len(tick) + 1]

Ran(step) == IF TickDone THEN <<step>> ELSE Append(tick, step)

----------------------------------------------------------------------------
(* GameWindow.on_key_press and on_key_release *)

\* a key-press handler that jumps without asking for ground contact
on_key_press_no_ground_test(key) ==
    /\ left_pressed' = IF key \in LeftKeys THEN TRUE ELSE left_pressed
    /\ right_pressed' = IF key \in RightKeys THEN TRUE ELSE right_pressed
    /\ physics_engine' =
         IF key \in JumpKeys
         THEN [physics_engine EXCEPT
                 !.impulses = Append(@, <<0, PLAYER_JUMP_IMPULSE>>)]
         ELSE physics_engine

on_key_press(key) ==
    /\ left_pressed' = IF key \in LeftKeys THEN TRUE ELSE left_pressed
    /\ right_pressed' = IF key \in RightKeys THEN TRUE ELSE right_pressed
    /\ physics_engine' =
         IF key \in JumpKeys /\ physics_engine.on_ground
         THEN [physics_engine EXCEPT
                 !.impulses = Append(@, <<0, PLAYER_JUMP_IMPULSE>>)]
         ELSE physics_engine

on_key_release(key) ==
    /\ left_pressed' = IF key \in LeftKeys THEN FALSE ELSE left_pressed
    /\ right_pressed' = IF key \in RightKeys THEN FALSE ELSE right_pressed

\* a key goes down between two update calls
KeyPress(key) ==
    /\ Running
    /\ UNCHANGED <<viewport, error>>
    /\ TickDone
    /\ key \notin held
    /\ Cardinality(held) < MaxHeld
    /\ Len(physics_engine.impulses) < MaxImpulses
    /\ held' = held \cup {key}
    /\ on_key_press(key)
    /\ UNCHANGED <<level, map_width, end_of_map, player_sprite, player_list,
                   wall_list, item_list, gem_list, view_left, view_bottom,
                   sounds, removed, tick>>

\* a held key goes up between two update calls
KeyRelease(key) ==
    /\ Running
    /\ UNCHANGED <<viewport, error>>
    /\ TickDone
    /\ key \in held
    /\ held' = held \ {key}
    /\ on_key_release(key)
    /\ UNCHANGED <<level, map_width, end_of_map, player_sprite, player_list,
                   wall_list, item_list, gem_list, physics_engine, view_left,
                   view_bottom, sounds, removed, tick>>

----------------------------------------------------------------------------
(* GameWindow.on_update, step by step; no other callback runs in between *)

\* the force of an input translator that forgets "and not right_pressed"
move_force_left_wins(left, right, is_on_ground) ==
    IF left
    THEN IF is_on_ground THEN << <<-PLAYER_MOVE_FORCE_ON_GROUND, 0>> >>
                         ELSE << <<-PLAYER_MOVE_FORCE_IN_AIR, 0>> >>
    ELSE IF right
    THEN IF is_on_ground THEN << <<PLAYER_MOVE_FORCE_ON_GROUND, 0>> >>
                         ELSE << <<PLAYER_MOVE_FORCE_IN_AIR, 0>> >>
    ELSE << >>

\* the force the input translator applies, if any
move_force(left, right, is_on_ground) ==
    IF left /\ ~right
    THEN IF is_on_ground THEN << <<-PLAYER_MOVE_FORCE_ON_GROUND, 0>> >>
                         ELSE << <<-PLAYER_MOVE_FORCE_IN_AIR, 0>> >>
    ELSE IF right /\ ~left
    THEN IF is_on_ground THEN << <<PLAYER_MOVE_FORCE_ON_GROUND, 0>> >>
                         ELSE << <<PLAYER_MOVE_FORCE_IN_AIR, 0>> >>
    ELSE << >>

\* the friction the input translator sets
move_friction(left, right) ==
    IF left /\ ~right THEN 0
    ELSE IF right /\ ~left THEN 0
    ELSE 1

\* UPDATE PLAYER FORCES
UpdateForces ==
    /\ Running
    /\ UNCHANGED <<viewport, error>>
    /\ At("input")
    /\ level < MaxLevel \/ player_sprite.center_x < end_of_map
    /\ tick' = Ran("input")
    /\ physics_engine' =
         [physics_engine EXCEPT
            !.forces = @ \o move_force(left_pressed, right_pressed,
                                       physics_engine.on_ground),
            !.friction = move_friction(left_pressed, right_pressed)]
    /\ UNCHANGED <<level, map_width, end_of_map, player_sprite, player_list,
                   wall_list, item_list, gem_list, left_pressed, right_pressed,
                   held, view_left, view_bottom, sounds, removed>>

\* the level-completion condition, with a strict comparison
got_to_end_strict(sprite, eom) == sprite.center_x > eom

\* the level-completion condition
got_to_end(sprite, eom) == sprite.center_x >= eom

\* See if the user got to the end of the level
LevelCheck ==
    /\ Running
    /\ UNCHANGED <<viewport, error>>
    /\ At("level")
    /\ tick' = Ran("level")
    /\ IF got_to_end(player_sprite, end_of_map)
       THEN /\ level' = level + 1
            /\ \E w \in MapWidths : setup(level + 1, w)
       ELSE UNCHANGED <<level, map_width, end_of_map, player_sprite,
                        player_list, wall_list, item_list, gem_list,
                        physics_engine, sounds, removed>>
    /\ UNCHANGED <<left_pressed, right_pressed, held, view_left, view_bottom>>

\* the margin checks with the scroll-up check writing to view_left
scroll_up_moves_left(vl, vb, sprite) ==
    LET left_boundary == vl + LEFT_VIEWPORT_MARGIN
        go_left == SpriteLeft(sprite) < left_boundary
        vl1 == IF go_left THEN vl - (left_boundary - SpriteLeft(sprite)) ELSE vl
        right_boundary == vl1 + SCREEN_WIDTH - RIGHT_VIEWPORT_MARGIN
        go_right == SpriteRight(sprite) > right_boundary
        vl2r == IF go_right THEN vl1 + (SpriteRight(sprite) - right_boundary) ELSE vl1
        top_boundary == vb + SCREEN_HEIGHT - TOP_VIEWPORT_MARGIN
        go_up == SpriteTop(sprite) > top_boundary
        vb1 == vb
        vl2 == IF go_up THEN vl2r + (SpriteTop(sprite) - top_boundary) ELSE vl2r
        bottom_boundary == vb1 + BOTTOM_VIEWPORT_MARGIN
        go_down == SpriteBottom(sprite) < bottom_boundary
        vb2 == IF go_down THEN vb1 - (bottom_boundary - SpriteBottom(sprite)) ELSE vb1
        changed == go_left \/ go_right \/ go_up \/ go_down
    IN  [changed |-> changed,
         raw_left |-> vl2,
         raw_bottom |-> vb2,
         view_left |-> IF changed THEN int(vl2) ELSE vl2,
         view_bottom |-> IF changed THEN int(vb2) ELSE vb2]

\* the four margin checks, in the code's order, and the rounding
scroll(vl, vb, sprite) ==
    LET left_boundary == vl + LEFT_VIEWPORT_MARGIN
        go_left == SpriteLeft(sprite) < left_boundary
        vl1 == IF go_left THEN vl - (left_boundary - SpriteLeft(sprite)) ELSE vl
        right_boundary == vl1 + SCREEN_WIDTH - RIGHT_VIEWPORT_MARGIN
        go_right == SpriteRight(sprite) > right_boundary
        vl2 == IF go_right THEN vl1 + (SpriteRight(sprite) - right_boundary) ELSE vl1
        top_boundary == vb + SCREEN_HEIGHT - TOP_VIEWPORT_MARGIN
        go_up == SpriteTop(sprite) > top_boundary
        vb1 == IF go_up THEN vb + (SpriteTop(sprite) - top_boundary) ELSE vb
        bottom_boundary == vb1 + BOTTOM_VIEWPORT_MARGIN
        go_down == SpriteBottom(sprite) < bottom_boundary
        vb2 == IF go_down THEN vb1 - (bottom_boundary - SpriteBottom(sprite)) ELSE vb1
        changed == go_left \/ go_right \/ go_up \/ go_down
    IN  [changed |-> changed,
         raw_left |-> vl2,
         raw_bottom |-> vb2,
         view_left |-> IF changed THEN int(vl2) ELSE vl2,
         view_bottom |-> IF changed THEN int(vb2) ELSE vb2]

\* the arguments of the arcade.set_viewport call
set_viewport(left, bottom) ==
    <<left, SCREEN_WIDTH + left, bottom, SCREEN_HEIGHT + bottom>>

\* MANAGE SCREEN SCROLLING
Scroll ==
    /\ Running
    /\ At("camera")
    /\ tick' = Ran("camera")
    /\ view_left' = scroll(view_left, view_bottom, player_sprite).view_left
    /\ view_bottom' = scroll(view_left, view_bottom, player_sprite).view_bottom
    /\ viewport' = IF scroll(view_left, view_bottom, player_sprite).changed
                   THEN set_viewport(view_left', view_bottom')
                   ELSE viewport
    /\ UNCHANGED error
    /\ UNCHANGED <<level, map_width, end_of_map, player_sprite, player_list,
                   wall_list, item_list, gem_list, physics_engine, left_pressed,
                   right_pressed, held, sounds, removed>>

\* arcade.check_for_collision: the two hit boxes overlap
check_for_collision(sprite, gem) ==
    /\ Abs(sprite.center_x - gem.center_x) < 2 * HalfExtent
    /\ Abs(sprite.center_y - gem.center_y) < 2 * HalfExtent

check_for_collision_with_list(sprite, list) ==
    {gem \in list : check_for_collision(sprite, gem)}

\* a pickup loop that plays the sound but leaves the gems in their list
remove_from_sprite_lists_forgotten(list, gem_hit_list) == list

\* gem.remove_from_sprite_lists() for every gem of the hit list
remove_from_sprite_lists(list, gem_hit_list) == list \ gem_hit_list

\* See if we hit any coins
CollectGems ==
    /\ Running
    /\ UNCHANGED <<viewport, error>>
    /\ At("collect")
    /\ tick' = Ran("collect")
    /\ LET gem_hit_list == check_for_collision_with_list(player_sprite, gem_list)
           hit_ids == {gem.id : gem \in gem_hit_list}
       IN  /\ gem_list' = remove_from_sprite_lists(gem_list, gem_hit_list)
           /\ removed' = [g \in GemIds(level) |->
                            IF g \in hit_ids THEN removed[g] + 1 ELSE removed[g]]
           /\ sounds' = sounds + Cardinality(gem_hit_list)
    /\ UNCHANGED <<level, map_width, end_of_map, player_sprite, player_list,
                   wall_list, item_list, physics_engine, left_pressed,
                   right_pressed, held, view_left, view_bottom>>

\* physics_engine.step(): the body moves, forces and impulses are consumed,
\* and the sprite is resynchronised, which calls its pymunk_moved
PhysicsStep(XS, YS) ==
    /\ Running
    /\ UNCHANGED <<viewport, error>>
    /\ At("physics")
    /\ tick' = Append(Ran("physics"), "animation")
    /\ \E nx \in XS, ny \in YS, ground \in BOOLEAN :
         LET dx == nx - player_sprite.center_x
             dy == ny - player_sprite.center_y
             moved == [player_sprite EXCEPT !.center_x = nx, !.center_y = ny]
         IN  /\ player_sprite' = pymunk_moved(moved, dx, dy, ground)
             /\ physics_engine' = [physics_engine EXCEPT
                                      !.forces = << >>,
                                      !.impulses = << >>,
                                      !.on_ground = ground]
    /\ UNCHANGED <<level, map_width, end_of_map, player_list, wall_list,
                   item_list, gem_list, left_pressed, right_pressed, held,
                   view_left, view_bottom, sounds, removed>>

----------------------------------------------------------------------------
(* Sampled player positions reported by the physics step *)

XPositions == {SpawnX, SpawnX + 1050, EndOfMap(1), EndOfMap(2)}
YPositions == {SpawnY, SpawnY - 920, SpawnY + 8405}
PlayKeys == {"LEFT", "UP"}

Next ==
    \/ \E key \in PlayKeys : KeyPress(key)
    \/ \E key \in PlayKeys : KeyRelease(key)
    \/ UpdateForces
    \/ LevelCheck
    \/ Scroll
    \/ CollectGems
    \/ PhysicsStep(XPositions, YPositions)

Spec == Init /\ [][Next]_vars

----------------------------------------------------------------------------
(* The animation under fine-grained displacements, nobody touching the keys *)

AnimXPositions == {SpawnX - 1, SpawnX, SpawnX + 1, SpawnX + 40,
                   SpawnX + 100, SpawnX + 101}
AnimYPositions == {SpawnY, SpawnY + 1, SpawnY + 2}

NextAnim ==
    \/ UpdateForces
    \/ LevelCheck
    \/ Scroll
    \/ CollectGems
    \/ PhysicsStep(AnimXPositions, AnimYPositions)

SpecAnim == Init /\ [][NextAnim]_vars

----------------------------------------------------------------------------
(* The keyboard in full, the player body staying near the spawn point or *)
(* arriving at the end of the map                                         *)

KeysXPositions == {SpawnX, EndOfMap(1)}
KeysYPositions == {SpawnY}

NextKeys ==
    \/ \E key \in Keys : KeyPress(key)
    \/ \E key \in Keys : KeyRelease(key)
    \/ UpdateForces
    \/ LevelCheck
    \/ Scroll
    \/ CollectGems
    \/ PhysicsStep(KeysXPositions, KeysYPositions)

SpecKeys == Init /\ [][NextKeys]_vars

----------------------------------------------------------------------------
(* Level transition *)

\* the level-completion step of on_update is taken
LevelCheckRuns == At("level") /\ tick' # tick

\* C1: the level counter changes only in the level-completion step of an
\* update call whose player.center_x >= end_of_map, and then by exactly 1;
\* that step runs setup: none of the old walls, items and collectibles is
\* left in the lists, the player is at the spawn point of grid (2,2) and
\* end_of_map is the new map's width * 30 + 800.
C1_LevelTransition ==
    [][ /\ level' # level =>
             LevelCheckRuns /\ player_sprite.center_x >= end_of_map
        /\ LevelCheckRuns /\ player_sprite.center_x >= end_of_map =>
             /\ level' = level + 1
             /\ wall_list' \cap wall_list = {}
             /\ item_list' \cap item_list = {}
             /\ gem_list' \cap gem_list = {}
             /\ Cardinality(gem_list') = NumGems
             /\ player_sprite'.center_x = (65 * 2 * Scale) + (65 * Scale) \div 2
             /\ player_sprite'.center_y = (65 * 2 * Scale) + (65 * Scale) \div 2
             /\ end_of_map' = (map_width' * 30 + 800) * Scale
      ]_vars

\* a level transition has just happened exactly at the threshold
C1_Witness ==
    /\ level = 2
    /\ tick = <<"input", "level">>
    /\ player_sprite.center_x = SpawnX
    /\ Cardinality(gem_list) = NumGems

----------------------------------------------------------------------------
(* Order of the steps of an update call *)

----------------------------------------------------------------------------
(* Input translator *)

\* C3: the input translator step of on_update does exactly one of: left
\* only -> one leftward force (8000 on ground, 900 in air) and friction 0;
\* right only -> one rightward force of the same magnitude and friction 0;
\* both or neither -> no force and friction 1.
C3_InputTranslator ==
    [][ At("input") /\ tick' # tick =>
          LET magnitude == IF physics_engine.on_ground THEN 8000 ELSE 900
              before == physics_engine.forces
              after == physics_engine'.forces
          IN  IF left_pressed /\ ~right_pressed
              THEN /\ after = Append(before, <<-magnitude, 0>>)
                   /\ physics_engine'.friction = 0
              ELSE IF right_pressed /\ ~left_pressed
              THEN /\ after = Append(before, <<magnitude, 0>>)
                   /\ physics_engine'.friction = 0
              ELSE /\ after = before
                   /\ physics_engine'.friction = 1
      ]_vars

\* the translator has just run on the ground with both directions held
C3_Witness ==
    /\ tick = <<"input">>
    /\ left_pressed /\ right_pressed
    /\ physics_engine.on_ground
    /\ physics_engine.forces = << >>
    /\ physics_engine.friction = 1

----------------------------------------------------------------------------
(* Jumping *)

\* C4: a press of a jump key while the player is ground-contacted applies
\* exactly one impulse (0, PLAYER_JUMP_IMPULSE); a press while airborne
\* applies none; no other step (a press of another key, a release, holding,
\* any step of an update call) applies an impulse.
C4_JumpImpulse ==
    [][ LET before == physics_engine.impulses
            after == physics_engine'.impulses
            jump_press == \E key \in JumpKeys :
                             key \notin held /\ held' = held \cup {key}
        IN  IF jump_press /\ physics_engine.on_ground
            THEN after = Append(before, <<0, 1400>>)
            ELSE after = before \/ after = << >>
      ]_vars

\* a jump key went down on the ground and is still held
C4_Witness ==
    /\ physics_engine.on_ground
    /\ physics_engine.impulses = << <<0, PLAYER_JUMP_IMPULSE>> >>
    /\ held = {"SPACE"}

----------------------------------------------------------------------------
(* Collectibles *)

\* C5: the pickup test of a tick removes exactly the collectibles that
\* overlap the player and plays one sound per removed collectible; within
\* one level instance a removed collectible never comes back, so every
\* collectible is removed at most once and the number of sounds equals the
\* number of removed collectibles.
C5_Pickup ==
    /\ [][ /\ At("collect") /\ tick' # tick =>
                LET hit == {gem \in gem_list :
                              /\ Abs(player_sprite.center_x - gem.center_x) < 2 * HalfExtent
                              /\ Abs(player_sprite.center_y - gem.center_y) < 2 * HalfExtent}
                IN  /\ gem_list' = gem_list \ hit
                    /\ sounds' = sounds + Cardinality(hit)
           /\ level' = level =>
                /\ gem_list' \subseteq gem_list
                /\ sounds' = sounds + Cardinality(gem_list \ gem_list')
         ]_vars
    /\ [](/\ \A g \in DOMAIN removed :
               /\ removed[g] <= 1
               /\ removed[g] = 1 <=> g \notin {gem.id : gem \in gem_list}
          /\ sounds = Cardinality({g \in DOMAIN removed : removed[g] > 0}))

\* the pickup test has just run with the player on the first two
\* collectibles of the second level, both of which are gone and were heard
C5_Witness ==
    /\ level = 2
    /\ tick = <<"input", "level", "camera", "collect">>
    /\ player_sprite.center_x = SpawnX + 1050
    /\ player_sprite.center_y = SpawnY
    /\ \A gem \in gem_list : gem.id[3] > 2
    /\ sounds >= 2

----------------------------------------------------------------------------
(* Camera *)

\* C10: in the camera step of a tick, if the player's left and right edges
\* are inside the horizontal margin band, view_left is unchanged by the
\* step, whatever happens to view_bottom; if the player's top and bottom
\* edges are inside the vertical band, view_bottom is unchanged, whatever
\* happens to view_left.
C10_IndependentMargins ==
    [][ At("camera") /\ tick' # tick =>
          LET left == player_sprite.center_x - HalfExtent
              right == player_sprite.center_x + HalfExtent
              top == player_sprite.center_y + HalfExtent
              bottom == player_sprite.center_y - HalfExtent
          IN  /\ ( /\ left >= view_left + LEFT_VIEWPORT_MARGIN
                   /\ right <= view_left + SCREEN_WIDTH - RIGHT_VIEWPORT_MARGIN )
                 => view_left' = view_left
              /\ ( /\ top <= view_bottom + SCREEN_HEIGHT - TOP_VIEWPORT_MARGIN
                   /\ bottom >= view_bottom + BOTTOM_VIEWPORT_MARGIN )
                 => view_bottom' = view_bottom
      ]_vars

\* the camera step has just moved view_bottom (the truncation leaves the
\* player's bottom edge below the margin) with the player inside the
\* horizontal band
C10_Witness ==
    /\ tick = <<"input", "level", "camera">>
    /\ player_sprite.center_x - HalfExtent >= view_left + LEFT_VIEWPORT_MARGIN
    /\ player_sprite.center_x + HalfExtent <= view_left + SCREEN_WIDTH - RIGHT_VIEWPORT_MARGIN
    /\ player_sprite.center_y - HalfExtent < view_bottom + BOTTOM_VIEWPORT_MARGIN
    /\ view_bottom < 0

----------------------------------------------------------------------------
(* Animation: PlayerSprite.pymunk_moved, called by the physics step with *)
(* the displacement of the player and the ground contact after the step  *)

PymunkMovedCalled == At("physics") /\ tick' # tick

\* C6: a call of pymunk_moved changes the facing direction only when
\* dx < -DEAD_ZONE while facing right or dx > DEAD_ZONE while facing left;
\* a call with |dx| <= DEAD_ZONE never changes it, whatever dy and the
\* ground contact are.
C6_FacingHysteresis ==
    [][ PymunkMovedCalled =>
          LET dx == player_sprite'.center_x - player_sprite.center_x
              facing == player_sprite.character_face_direction
              facing_after == player_sprite'.character_face_direction
          IN  /\ facing_after # facing =>
                    \/ dx < -DEAD_ZONE /\ facing = RIGHT_FACING
                    \/ dx > DEAD_ZONE /\ facing = LEFT_FACING
              /\ Abs(dx) <= DEAD_ZONE => facing_after = facing
      ]_vars

\* a call with |dx| <= DEAD_ZONE (the idle texture is displayed) has left a
\* left-facing sprite facing left
C6_Witness ==
    /\ TickDone /\ tick # << >>
    /\ player_sprite.character_face_direction = LEFT_FACING
    /\ player_sprite.texture = <<"idle", 0, LEFT_FACING>>
    /\ player_sprite.center_x = SpawnX - 1

\* C7: current_texture is always in 0..7; a call of pymunk_moved leaves it
\* unchanged or changes it to (old + 1) mod 8, and right after such an
\* advance the odometer is 0.
C7_FrameIndex ==
    /\ [](player_sprite.current_texture \in 0..7)
    /\ [][ PymunkMovedCalled =>
             \/ player_sprite'.current_texture = player_sprite.current_texture
             \/ /\ player_sprite'.current_texture =
                     (player_sprite.current_texture + 1) % 8
                /\ player_sprite'.x_odometer = 0
         ]_vars

\* the walk cycle has wrapped around: walk frame 0 is displayed
C7_Witness ==
    /\ player_sprite.texture[1] = "walk"
    /\ player_sprite.texture[2] = 0
    /\ player_sprite.current_texture = 0
    /\ player_sprite.x_odometer = 0

----------------------------------------------------------------------------
(* Odometer *)

\* C8 as stated: the odometer grows by |dx| on walking calls only (calls
\* that select neither jump, fall nor idle), is never negative, and on a
\* walking call the frame index advances exactly when the accumulated |dx|
\* exceeds DISTANCE_TO_CHANGE_TEXTURE.
C8_UnsignedOdometer ==
    [][ PymunkMovedCalled =>
          LET dx == player_sprite'.center_x - player_sprite.center_x
              dy == player_sprite'.center_y - player_sprite.center_y
              airborne == ~physics_engine'.on_ground
              walking == /\ ~(airborne /\ dy > DEAD_ZONE)
                         /\ ~(airborne /\ dy < -DEAD_ZONE)
                         /\ ~(Abs(dx) <= DEAD_ZONE)
              travelled == player_sprite.x_odometer + Abs(dx)
              frame == player_sprite.current_texture
          IN  /\ player_sprite'.x_odometer >= 0
              /\ ~walking => /\ player_sprite'.x_odometer = player_sprite.x_odometer
                             /\ player_sprite'.current_texture = frame
              /\ walking =>
                   IF travelled > DISTANCE_TO_CHANGE_TEXTURE
                   THEN /\ player_sprite'.x_odometer = 0
                        /\ player_sprite'.current_texture = (frame + 1) % 8
                   ELSE /\ player_sprite'.x_odometer = travelled
                        /\ player_sprite'.current_texture = frame
      ]_vars

\* C8 amended: the odometer is the sum of the signed dx of all calls of
\* pymunk_moved since the last walk-frame advance (or since the sprite was
\* created): every call adds dx, also a jump, fall or idle call, so it can
\* be negative; on a walking call the frame index advances, and the
\* odometer is reset to 0, exactly when the absolute value of that sum
\* exceeds DISTANCE_TO_CHANGE_TEXTURE.
C8_SignedOdometer ==
    [][ PymunkMovedCalled =>
          LET dx == player_sprite'.center_x - player_sprite.center_x
              dy == player_sprite'.center_y - player_sprite.center_y
              airborne == ~physics_engine'.on_ground
              walking == /\ ~(airborne /\ dy > DEAD_ZONE)
                         /\ ~(airborne /\ dy < -DEAD_ZONE)
                         /\ ~(Abs(dx) <= DEAD_ZONE)
              sum == player_sprite.x_odometer + dx
              frame == player_sprite.current_texture
          IN  IF walking /\ Abs(sum) > DISTANCE_TO_CHANGE_TEXTURE
              THEN /\ player_sprite'.x_odometer = 0
                   /\ player_sprite'.current_texture = (frame + 1) % 8
              ELSE /\ player_sprite'.x_odometer = sum
                   /\ player_sprite'.current_texture = frame
      ]_vars

\* a jump call has left a negative odometer behind
C8_Witness ==
    /\ TickDone /\ tick # << >>
    /\ player_sprite.texture[1] = "jump"
    /\ player_sprite.x_odometer < -DEAD_ZONE

----------------------------------------------------------------------------
(* Texture class *)

\* C9: a call of pymunk_moved selects the texture class by precedence: not
\* on ground and dy > DEAD_ZONE -> jump; else not on ground and
\* dy < -DEAD_ZONE -> fall; else |dx| <= DEAD_ZONE -> idle.  A call made on
\* the ground never selects jump or fall (if such a texture is displayed
\* after it, it is the texture the call found), and in the jump, fall and
\* idle cases the walk frame index is unchanged.
C9_TextureClass ==
    [][ PymunkMovedCalled =>
          LET dx == player_sprite'.center_x - player_sprite.center_x
              dy == player_sprite'.center_y - player_sprite.center_y
              on_ground == physics_engine'.on_ground
              jump == (~on_ground) /\ dy > DEAD_ZONE
              fall == (~jump) /\ (~on_ground) /\ dy < -DEAD_ZONE
              idle == (~jump) /\ (~fall) /\ Abs(dx) <= DEAD_ZONE
              class == player_sprite'.texture[1]
          IN  /\ jump => class = "jump"
              /\ fall => class = "fall"
              /\ idle => class = "idle"
              /\ on_ground /\ class \in {"jump", "fall"} =>
                    player_sprite'.texture = player_sprite.texture
              /\ jump \/ fall \/ idle =>
                    player_sprite'.current_texture = player_sprite.current_texture
      ]_vars

\* the fall texture is displayed after an airborne call, on a sprite whose
\* walk cycle had advanced before
C9_Witness ==
    /\ TickDone /\ tick # << >>
    /\ ~physics_engine.on_ground
    /\ player_sprite.texture[1] = "fall"
    /\ player_sprite.current_texture = 3

----------------------------------------------------------------------------
(* Rounding of the camera offsets *)

\* a whole number of pixels
IsInteger(v) == v % Scale = 0

\* the greatest whole number of pixels not above v
Floor(v) == (v \div Scale) * Scale

\* the camera step of on_update is taken
ScrollRuns == At("camera") /\ tick' # tick

\* C11: view_left and view_bottom are whole numbers in every state, in
\* particular at the end of every update tick, and so are the four values
\* handed to set_viewport.
C11_IntegerOffsets ==
    /\ IsInteger(view_left)
    /\ IsInteger(view_bottom)
    /\ \A i \in 1..4 : IsInteger(viewport[i])
    /\ viewport # <<0, SCREEN_WIDTH, 0, SCREEN_HEIGHT>> =>
          viewport = <<view_left, SCREEN_WIDTH + view_left,
                       view_bottom, SCREEN_HEIGHT + view_bottom>>

\* an update tick has ended whose camera step saw the player's left edge at
\* a half pixel and set the viewport
C11_Witness ==
    /\ TickDone /\ tick # << >>
    /\ viewport[1] = view_left
    /\ view_left < 0
    /\ view_bottom > 0

\* C12 as stated: when the camera step changes the camera, the new offsets
\* are the floor of the offsets computed by the margin shifts, also when
\* they are negative.
C12_Floored ==
    [][ ScrollRuns =>
          LET left == player_sprite.center_x - HalfExtent
              right == player_sprite.center_x + HalfExtent
              top == player_sprite.center_y + HalfExtent
              bottom == player_sprite.center_y - HalfExtent
              l1 == IF left < view_left + LEFT_VIEWPORT_MARGIN
                    THEN left - LEFT_VIEWPORT_MARGIN ELSE view_left
              l2 == IF right > l1 + SCREEN_WIDTH - RIGHT_VIEWPORT_MARGIN
                    THEN right - SCREEN_WIDTH + RIGHT_VIEWPORT_MARGIN ELSE l1
              b1 == IF top > view_bottom + SCREEN_HEIGHT - TOP_VIEWPORT_MARGIN
                    THEN top - SCREEN_HEIGHT + TOP_VIEWPORT_MARGIN ELSE view_bottom
              b2 == IF bottom < b1 + BOTTOM_VIEWPORT_MARGIN
                    THEN bottom - BOTTOM_VIEWPORT_MARGIN ELSE b1
          IN  viewport' # viewport =>
                /\ view_left' = Floor(l2)
                /\ view_bottom' = Floor(b2)
                /\ viewport'[1] = Floor(l2)
                /\ viewport'[3] = Floor(b2)
      ]_vars

\* C12 amended: when the camera step changes the camera, the new offsets
\* are the offsets computed by the margin shifts truncated toward zero: the
\* floor of a non-negative offset, but the least whole number not below a
\* negative one.
C12_Truncated ==
    [][ ScrollRuns =>
          LET left == player_sprite.center_x - HalfExtent
              right == player_sprite.center_x + HalfExtent
              top == player_sprite.center_y + HalfExtent
              bottom == player_sprite.center_y - HalfExtent
              l1 == IF left < view_left + LEFT_VIEWPORT_MARGIN
                    THEN left - LEFT_VIEWPORT_MARGIN ELSE view_left
              l2 == IF right > l1 + SCREEN_WIDTH - RIGHT_VIEWPORT_MARGIN
                    THEN right - SCREEN_WIDTH + RIGHT_VIEWPORT_MARGIN ELSE l1
              b1 == IF top > view_bottom + SCREEN_HEIGHT - TOP_VIEWPORT_MARGIN
                    THEN top - SCREEN_HEIGHT + TOP_VIEWPORT_MARGIN ELSE view_bottom
              b2 == IF bottom < b1 + BOTTOM_VIEWPORT_MARGIN
                    THEN bottom - BOTTOM_VIEWPORT_MARGIN ELSE b1
              Truncated(v) == IF v >= 0 THEN Floor(v) ELSE -Floor(-v)
          IN  /\ (l2 # view_left \/ b2 # view_bottom) =>
                /\ view_left' = Truncated(l2)
                /\ view_bottom' = Truncated(b2)
                /\ viewport'[1] = Truncated(l2)
                /\ viewport'[3] = Truncated(b2)
              /\ (l2 = view_left /\ b2 = view_bottom) =>
                /\ view_left' = view_left
                /\ view_bottom' = view_bottom
                /\ viewport' = viewport
      ]_vars

\* the camera step has just run with the player at the spawn point, whose
\* left edge minus the margin is -769.5 pixels: the offset is -769, not -770
C12_Witness ==
    /\ tick = <<"input", "level", "camera">>
    /\ player_sprite.center_x = SpawnX
    /\ view_left = -7690
    /\ viewport[1] = -7690

----------------------------------------------------------------------------
(* The player entity across a level transition *)

\* C13 as stated: the setup call of a level transition keeps the facing
\* direction, the odometer and the walk frame index of the player and
\* resets only its position.
C13_PlayerPersists ==
    [][ LevelCheckRuns /\ level' # level =>
          /\ player_sprite'.character_face_direction =
                player_sprite.character_face_direction
          /\ player_sprite'.x_odometer = player_sprite.x_odometer
          /\ player_sprite'.current_texture = player_sprite.current_texture
          /\ player_sprite'.center_x = SpawnX
          /\ player_sprite'.center_y = SpawnY
      ]_vars

\* C13 amended: the setup call of a level transition replaces the player by
\* a newly constructed PlayerSprite: whatever they were before, afterwards
\* the facing direction is right, the odometer is 0, the walk frame index
\* is 0 and the idle texture facing right is displayed, at the spawn point.
C13_PlayerReplaced ==
    [][ LevelCheckRuns /\ level' # level =>
          /\ player_sprite'.id # player_sprite.id
          /\ player_sprite'.character_face_direction = 0
          /\ player_sprite'.x_odometer = 0
          /\ player_sprite'.current_texture = 0
          /\ player_sprite'.texture = <<"idle", 0, 0>>
          /\ player_sprite'.center_x = SpawnX
          /\ player_sprite'.center_y = SpawnY
      ]_vars

\* the second level has just been set up, after the camera had followed
\* the old player to the right, and its player is a fresh one
C13_Witness ==
    /\ level = 2
    /\ tick = <<"input", "level">>
    /\ player_sprite = [id |-> 2, center_x |-> SpawnX, center_y |-> SpawnY,
                        texture |-> <<"idle", 0, 0>>,
                        character_face_direction |-> 0,
                        current_texture |-> 0, x_odometer |-> 0]
    /\ view_left > -7000

----------------------------------------------------------------------------
(* A level whose map resource is missing *)

\* setup up to the point where arcade.tilemap.read_tmx raises: the two
\* fresh sprite lists are in place, nothing else of setup has run
setup_map_missing ==
    /\ player_list' = {}
    /\ gem_list' = {}
    /\ error' = "read_tmx"
    /\ UNCHANGED <<map_width, end_of_map, wall_list, item_list, player_sprite,
                   physics_engine, sounds, removed>>

\* the level-completion step of on_update when the next map is missing
LevelCheckMapMissing ==
    /\ Running
    /\ At("level")
    /\ got_to_end(player_sprite, end_of_map)
    /\ tick' = Ran("level")
    /\ level' = level + 1
    /\ setup_map_missing
    /\ UNCHANGED <<left_pressed, right_pressed, held, view_left, view_bottom,
                   viewport>>

MapsXPositions == {SpawnX, SpawnX + 1050, EndOfMap(1), EndOfMap(2)}
MapsYPositions == {SpawnY}
MapsKeys == {"LEFT"}

NextMaps ==
    \/ \E key \in MapsKeys : KeyPress(key)
    \/ \E key \in MapsKeys : KeyRelease(key)
    \/ UpdateForces
    \/ LevelCheck
    \/ LevelCheckMapMissing
    \/ Scroll
    \/ CollectGems
    \/ PhysicsStep(MapsXPositions, MapsYPositions)

SpecMaps == Init /\ [][NextMaps]_vars

\* C14: a load error arises only in the level-completion step of an update
\* call that found the player at the end of the map, it leaves on_update
\* at that point (the remaining steps of the call do not run), and no
\* callback runs afterwards: the game goes on neither in the old level nor
\* in a level with empty geometry.
C14_MissingMapIsFatal ==
    [][ /\ error = "none"
        /\ error' # "none" =>
              /\ At("level")
              /\ player_sprite.center_x >= end_of_map
              /\ tick' = <<"input", "level">>
      ]_vars

\* the map of level 2 was missing
C14_Witness ==
    /\ error = "read_tmx"
    /\ level = 2
    /\ tick = <<"input", "level">>
    /\ gem_list = {}

----------------------------------------------------------------------------
(* The one player *)

\* C15: in every state the player draw list holds exactly one sprite, which
\* is the sprite player_sprite refers to and the player registered with the
\* current physics engine.
C15_OnePlayer ==
    /\ Cardinality(player_list) = 1
    /\ player_list = {player_sprite.id}
    /\ physics_engine.player = player_sprite.id
    /\ physics_engine.id = level

\* the world has been replaced, and a tick has run in the new one
C15_Witness ==
    /\ level = 2
    /\ player_list = {2}
    /\ player_sprite.id = 2
    /\ physics_engine.player = 2
    /\ TickDone
    /\ physics_engine.on_ground

----------------------------------------------------------------------------
(* The tick of a level transition *)

\* C16: a level transition happens in the level-completion step, before the
\* camera step and the pickup test of its tick.  The camera step that
\* follows reads the player set up at the spawn point and leaves it inside
\* the horizontal margin band (up to the rounding); the pickup test removes
\* and sounds only collectibles of the current level, so a collectible of a
\* discarded level is never removed or heard again.
C16_TransitionFirst ==
    /\ [][ /\ level' # level =>
                /\ tick' = <<"input", "level">>
                /\ player_sprite'.center_x = SpawnX
                /\ player_sprite'.center_y = SpawnY
                /\ \A gem \in gem_list' : gem.id[1] = level'
           /\ tick = <<"input", "level">> /\ tick' # tick =>
                /\ tick' = <<"input", "level", "camera">>
                /\ player_sprite' = player_sprite
                /\ player_sprite.center_x - HalfExtent
                     >= view_left' + LEFT_VIEWPORT_MARGIN - Scale
                /\ player_sprite.center_x + HalfExtent
                     <= view_left' + SCREEN_WIDTH - RIGHT_VIEWPORT_MARGIN + Scale
           /\ tick = <<"input", "level", "camera">> /\ tick' # tick =>
                /\ tick' = <<"input", "level", "camera", "collect">>
                /\ \A gem \in gem_list \ gem_list' : gem.id[1] = level
                /\ sounds' = sounds + Cardinality(gem_list \ gem_list')
           /\ (sounds' > sounds \/ \E g \in DOMAIN removed' :
                                      g \in DOMAIN removed /\ removed'[g] > removed[g]) =>
                tick' = <<"input", "level", "camera", "collect">>
         ]_vars
    /\ [](/\ \A gem \in gem_list : gem.id[1] = level
          /\ \A g \in DOMAIN removed : g[1] = level)

\* the pickup test of a transition tick has run: LEFT is held but the new
\* engine carries no force, the camera has moved to the spawn point and the
\* collectibles of level 2 are all there
C16_Witness ==
    /\ level = 2
    /\ tick = <<"input", "level", "camera", "collect">>
    /\ left_pressed
    /\ physics_engine.forces = << >>
    /\ player_sprite.center_x = SpawnX
    /\ view_left = -7690
    /\ gem_list = MapGems(2)
    /\ sounds = 0

----------------------------------------------------------------------------
(* The body that the physics step integrates *)

\* C17: when the physics step of a tick is about to run, the player body of
\* the engine has friction 0 and carries one steering force if exactly one
\* of left and right is held, and has friction 1 and carries no force
\* otherwise; also in a tick that performed a level transition.
C17_SteeringInEffect ==
    tick = <<"input", "level", "camera", "collect">> =>
        IF left_pressed # right_pressed
        THEN /\ physics_engine.friction = 0
             /\ Len(physics_engine.forces) = 1
        ELSE /\ physics_engine.friction = 1
             /\ physics_engine.forces = << >>

----------------------------------------------------------------------------
(* Jump keys between two physics steps *)

\* C18: between two consecutive physics steps at most one jump impulse is
\* applied to the player, whatever jump keys go down in between.
C18_OneImpulsePerStep ==
    Len(physics_engine.impulses) <= 1

----------------------------------------------------------------------------
(* Two keys for one direction *)

\* C19: whenever an update tick can start, left_pressed is true exactly
\* when a left-bound key is held down, and right_pressed exactly when a
\* right-bound key is held down.
C19_FlagsFollowKeys ==
    TickDone =>
        /\ left_pressed <=> (held \cap LeftKeys # {})
        /\ right_pressed <=> (held \cap RightKeys # {})

----------------------------------------------------------------------------
(* Texture and facing *)

\* C20: after every call of pymunk_moved the displayed texture is the
\* variant for the facing direction the sprite has after the call.
C20_TextureFollowsFacing ==
    [][ PymunkMovedCalled =>
          player_sprite'.texture[3] = player_sprite'.character_face_direction
      ]_vars

====
